---- MODULE Spec2Model ----
(***************************************************************************)
(* Model of the selection engine of rnote's StrokesState                   *)
(* (src/src/strokes/selection_comp.rs).                                    *)
(*                                                                         *)
(* Coordinates are f64 in the source.  The model draws every input from    *)
(* small integers, on which f64 addition, subtraction and comparison are   *)
(* exact, and admits a resize only when each quotient it forms is exact;   *)
(* the three non-finite f64 values that a division by a zero extent        *)
(* produces are kept as distinguished values with IEEE-754 arithmetic.     *)
(* An Option<T> is a sequence: << >> is None, <<x>> is Some(x).            *)
(* A slotmap key is the index of its slot; keys are never removed here.    *)
(***************************************************************************)
EXTENDS Integers, Sequences, FiniteSets

-----------------------------------------------------------------------------
(* Bounds of the model *)

\* number of operations of one run
MaxOps == 3
\* capacity of the stroke arena
MaxKeys == 4

-----------------------------------------------------------------------------
(* f64 values: an integer, or one of three non-finite values *)

PosInf == 1000000
NegInf == -1000000
NaN == 7777777

IsNaN(a) == a = NaN
IsInf(a) == a = PosInf \/ a = NegInf
IsFin(a) == ~IsNaN(a) /\ ~IsInf(a)

Sign(a) == IF a > 0 THEN 1 ELSE IF a < 0 THEN -1 ELSE 0
InfOf(s) == IF s > 0 THEN PosInf ELSE NegInf

FNeg(a) ==
    IF IsNaN(a) THEN NaN
    ELSE IF a = PosInf THEN NegInf
    ELSE IF a = NegInf THEN PosInf
    ELSE 0 - a

FAdd(a, b) ==
    IF IsNaN(a) \/ IsNaN(b) THEN NaN
    ELSE IF IsInf(a) /\ IsInf(b) THEN (IF a = b THEN a ELSE NaN)
    ELSE IF IsInf(a) THEN a
    ELSE IF IsInf(b) THEN b
    ELSE a + b

FSub(a, b) == FAdd(a, FNeg(b))

\* a <= b on f64: false as soon as one side is NaN
FLe(a, b) == ~IsNaN(a) /\ ~IsNaN(b) /\ a <= b

\* The quotient a / b, kept as a fraction n/d so that the product with it is
\* exact: d > 0 is the rational n/d, d = 0 is +inf (n = 1), -inf (n = -1)
\* or NaN (n = 0).
QNaN == [n |-> 0, d |-> 0]
QInf(s) == [n |-> Sign(s), d |-> 0]

FDiv(a, b) ==
    IF IsNaN(a) \/ IsNaN(b) THEN QNaN
    ELSE IF IsInf(a) /\ IsInf(b) THEN QNaN
    ELSE IF IsInf(a) THEN QInf(IF b < 0 THEN 0 - Sign(a) ELSE Sign(a))
    ELSE IF IsInf(b) THEN [n |-> 0, d |-> 1]
    ELSE IF b = 0 THEN (IF a = 0 THEN QNaN ELSE QInf(a))
    ELSE IF b < 0 THEN [n |-> 0 - a, d |-> 0 - b]
    ELSE [n |-> a, d |-> b]

\* The product x * q of an f64 with a quotient
FMul(x, q) ==
    IF IsNaN(x) \/ (q.d = 0 /\ q.n = 0) THEN NaN
    ELSE IF q.d = 0 THEN (IF x = 0 THEN NaN ELSE InfOf(Sign(x) * q.n))
    ELSE IF IsInf(x) THEN (IF q.n = 0 THEN NaN ELSE InfOf(Sign(x) * Sign(q.n)))
    ELSE (x * q.n) \div q.d

\* x * q is an integer (or non-finite): the model can hold the product
ExactMul(x, q) ==
    (IsFin(x) /\ q.d > 0) => (x * q.n) % q.d = 0

FMin(a, b) == IF IsNaN(a) THEN b ELSE IF IsNaN(b) THEN a ELSE IF a <= b THEN a ELSE b
FMax(a, b) == IF IsNaN(a) THEN b ELSE IF IsNaN(b) THEN a ELSE IF a >= b THEN a ELSE b

-----------------------------------------------------------------------------
(* p2d::bounding_volume::AABB and the geometry helpers *)

AABB(x0, y0, x1, y1) == [mins |-> <<x0, y0>>, maxs |-> <<x1, y1>>]

extents(b) == <<FSub(b.maxs[1], b.mins[1]), FSub(b.maxs[2], b.mins[2])>>

\* BoundingVolume::contains: a contains b
contains(a, b) ==
    /\ FLe(a.mins[1], b.mins[1]) /\ FLe(a.mins[2], b.mins[2])
    /\ FLe(b.maxs[1], a.maxs[1]) /\ FLe(b.maxs[2], a.maxs[2])

\* BoundingVolume::intersects
intersects(a, b) ==
    /\ FLe(a.mins[1], b.maxs[1]) /\ FLe(a.mins[2], b.maxs[2])
    /\ FLe(b.mins[1], a.maxs[1]) /\ FLe(b.mins[2], a.maxs[2])

\* BoundingVolume::merged
merged(a, b) ==
    [mins |-> <<FMin(a.mins[1], b.mins[1]), FMin(a.mins[2], b.mins[2])>>,
     maxs |-> <<FMax(a.maxs[1], b.maxs[1]), FMax(a.maxs[2], b.maxs[2])>>]

\* geometry::aabb_translate
aabb_translate(b, offset) ==
    [mins |-> <<FAdd(b.mins[1], offset[1]), FAdd(b.mins[2], offset[2])>>,
     maxs |-> <<FAdd(b.maxs[1], offset[1]), FAdd(b.maxs[2], offset[2])>>]

-----------------------------------------------------------------------------
(* StrokeStyle: a variant tag, its bounds and, for the freehand variants,  *)
(* its hitbox                                                              *)

Freehand == {"MarkerStroke", "BrushStroke"}
StrokeKinds == Freehand \cup {"ShapeStroke", "VectorImage", "BitmapImage"}

\* StrokeBehaviour::translate
StrokeTranslate(stroke, offset) ==
    [stroke EXCEPT
        !.bounds = aabb_translate(@, offset),
        !.hitbox = [i \in DOMAIN @ |-> aabb_translate(@[i], offset)]]

\* the map of one point of a stroke when its bounds go from old to new, per axis
ResizePoint(x, old, new, i) ==
    FAdd(FMul(FSub(x, old.mins[i]), FDiv(extents(new)[i], extents(old)[i])),
         new.mins[i])

ResizeBox(h, old, new) ==
    [mins |-> <<ResizePoint(h.mins[1], old, new, 1), ResizePoint(h.mins[2], old, new, 2)>>,
     maxs |-> <<ResizePoint(h.maxs[1], old, new, 1), ResizePoint(h.maxs[2], old, new, 2)>>]

\* StrokeBehaviour::resize
StrokeResize(stroke, new_bounds) ==
    [stroke EXCEPT
        !.bounds = new_bounds,
        !.hitbox = [i \in DOMAIN @ |-> ResizeBox(@[i], stroke.bounds, new_bounds)]]

-----------------------------------------------------------------------------
(* StrokesState *)

VARIABLES
    strokes,               \* arena: key -> StrokeStyle
    selection_components,  \* key -> SelectionComponent.selected
    chrono_components,     \* key -> ChronoComponent.t
    render_components,     \* key -> [render, image_bounds, regenerate_flag]
    trash_components,      \* key -> TrashComponent.trashed
    chrono_counter,
    selection_bounds,      \* Option<AABB>
    exported,              \* result of gen_svg_selection since the last mutation
    exported_file,         \* what export_selection_as_svg did since the last mutation
    par,                   \* the parallel phase in flight, if any
    last,                  \* the last call: its name, arguments, result, state before
    nops                   \* number of calls made

state == <<strokes, selection_components, chrono_components, render_components,
           trash_components, chrono_counter, selection_bounds>>
vars == <<strokes, selection_components, chrono_components, render_components,
          trash_components, chrono_counter, selection_bounds, exported, exported_file,
          par, last, nops>>

\* the engine's state as one value
Cur ==
    [strokes |-> strokes,
     selection_components |-> selection_components,
     chrono_components |-> chrono_components,
     render_components |-> render_components,
     trash_components |-> trash_components,
     chrono_counter |-> chrono_counter,
     selection_bounds |-> selection_bounds]

Keys(st) == DOMAIN st.strokes

can_select(st, key) == key \in DOMAIN st.selection_components

selected(st, key) ==
    IF key \in DOMAIN st.selection_components
    THEN <<st.selection_components[key]>>
    ELSE << >>

\* the keys of the selection; the source collects them in no particular order
keys_selection(st) ==
    {key \in DOMAIN st.selection_components : st.selection_components[key]}

selection_len(st) == Cardinality(keys_selection(st))

RECURSIVE MergeUpTo(_, _, _)
MergeUpTo(st, keys, k) ==
    IF k = 0 THEN << >>
    ELSE LET rest == MergeUpTo(st, keys, k - 1)
         IN IF k \notin keys THEN rest
            ELSE IF rest = << >> THEN <<st.strokes[k].bounds>>
            ELSE <<merged(rest[1], st.strokes[k].bounds)>>

\* StrokesState::gen_bounds: the union of the bounds of the strokes of keys
gen_bounds(st, keys) == MergeUpTo(st, keys \cap Keys(st), Len(st.strokes))

update_selection_bounds(st) ==
    [st EXCEPT !.selection_bounds = gen_bounds(st, keys_selection(st))]

\* set_selected writing true into the flag whatever the argument
set_selected_AlwaysTrue(st, key, sel) ==
    IF key \in DOMAIN st.selection_components
    THEN LET s1 == [st EXCEPT !.selection_components[key] = TRUE]
             s2 == IF sel /\ key \in DOMAIN s1.chrono_components
                   THEN [s1 EXCEPT !.chrono_counter = @ + 1,
                                   !.chrono_components[key] = s1.chrono_counter + 1]
                   ELSE s1
         IN update_selection_bounds(s2)
    ELSE st

\* set_selected advancing the counter before it looks the key up
set_selected_CountsMissingKey(st, key, sel) ==
    IF key \in DOMAIN st.selection_components
    THEN LET s1 == [st EXCEPT !.selection_components[key] = sel]
             s2 == IF sel /\ key \in DOMAIN s1.chrono_components
                   THEN [s1 EXCEPT !.chrono_counter = @ + 1,
                                   !.chrono_components[key] = s1.chrono_counter + 1]
                   ELSE s1
         IN update_selection_bounds(s2)
    ELSE IF sel THEN [st EXCEPT !.chrono_counter = @ + 1] ELSE st

\* set_selected stamping only a stroke that was not selected before
set_selected_StampOnTransition(st, key, sel) ==
    IF key \in DOMAIN st.selection_components
    THEN LET s1 == [st EXCEPT !.selection_components[key] = sel]
             s2 == IF sel /\ ~st.selection_components[key]
                          /\ key \in DOMAIN s1.chrono_components
                   THEN [s1 EXCEPT !.chrono_counter = @ + 1,
                                   !.chrono_components[key] = s1.chrono_counter + 1]
                   ELSE s1
         IN update_selection_bounds(s2)
    ELSE st

set_selected(st, key, sel) ==
    IF key \in DOMAIN st.selection_components
    THEN LET s1 == [st EXCEPT !.selection_components[key] = sel]
             s2 == IF sel /\ key \in DOMAIN s1.chrono_components
                   THEN [s1 EXCEPT !.chrono_counter = @ + 1,
                                   !.chrono_components[key] = s1.chrono_counter + 1]
                   ELSE s1
         IN update_selection_bounds(s2)
    ELSE st

\* the body of the for_each of deselect_all_strokes, for one key
\* the closure of deselect_all_strokes losing the write to the counter
DeselectOne_LostIncrement(st, key) ==
    LET s1 == [st EXCEPT !.selection_components[key] = FALSE]
    IN IF key \in DOMAIN s1.chrono_components
       THEN [s1 EXCEPT !.chrono_components[key] = s1.chrono_counter + 1]
       ELSE s1

DeselectOne(st, key) ==
    LET s1 == [st EXCEPT !.selection_components[key] = FALSE]
    IN IF key \in DOMAIN s1.chrono_components
       THEN [s1 EXCEPT !.chrono_counter = @ + 1,
                       !.chrono_components[key] = s1.chrono_counter + 1]
       ELSE s1

\* deselect_all_strokes leaving selection_bounds as it was
deselect_all_strokes_KeepsBounds(st) ==
    LET Up[k \in 0..Len(st.selection_components)] ==
            IF k = 0 THEN st ELSE DeselectOne(Up[k - 1], k)
    IN Up[Len(st.selection_components)]

RECURSIVE DeselectUpTo(_, _)
DeselectUpTo(st, k) ==
    IF k = 0 THEN st ELSE DeselectOne(DeselectUpTo(st, k - 1), k)

deselect_all_strokes(st) ==
    [DeselectUpTo(st, Len(st.selection_components)) EXCEPT !.selection_bounds = << >>]

\* StrokesState::insert_stroke: a new key with its components
insert_stroke(st, stroke) ==
    [st EXCEPT
        !.strokes = Append(@, stroke),
        !.selection_components = Append(@, FALSE),
        !.trash_components = Append(@, FALSE),
        !.render_components =
            Append(@, [render |-> TRUE, image_bounds |-> stroke.bounds,
                       regenerate_flag |-> FALSE]),
        !.chrono_counter = @ + 1,
        !.chrono_components = Append(@, st.chrono_counter + 1)]

\* translate_selection recomputing selection_bounds from the moved strokes
\* where the source shifts the value it holds
translate_selection_RecomputeBounds(st, offset) ==
    LET translated_strokes == keys_selection(st) \cap Keys(st)
        moved == [st EXCEPT
          !.strokes = [k \in DOMAIN @ |->
              IF k \in translated_strokes THEN StrokeTranslate(@[k], offset) ELSE @[k]],
          !.render_components = [k \in DOMAIN @ |->
              IF k \in translated_strokes
              THEN [@[k] EXCEPT !.image_bounds = aabb_translate(@, offset)]
              ELSE @[k]]]
    IN update_selection_bounds(moved)

\* translate_selection moving every stroke of the arena
translate_selection_AllStrokes(st, offset) ==
    [st EXCEPT
       !.strokes = [k \in DOMAIN @ |-> StrokeTranslate(@[k], offset)],
       !.render_components = [k \in DOMAIN @ |->
           [@[k] EXCEPT !.image_bounds = aabb_translate(@, offset)]],
       !.selection_bounds =
           IF @ # << >> THEN <<aabb_translate(@[1], offset)>> ELSE << >>]

translate_selection(st, offset) ==
    LET translated_strokes == keys_selection(st) \cap Keys(st)
    IN [st EXCEPT
          !.strokes = [k \in DOMAIN @ |->
              IF k \in translated_strokes THEN StrokeTranslate(@[k], offset) ELSE @[k]],
          !.render_components = [k \in DOMAIN @ |->
              IF k \in translated_strokes
              THEN [@[k] EXCEPT !.image_bounds = aabb_translate(@, offset)]
              ELSE @[k]],
          !.selection_bounds =
              IF @ # << >> THEN <<aabb_translate(@[1], offset)>> ELSE << >>]

SELECTION_DUPLICATION_OFFSET_X == 20
SELECTION_DUPLICATION_OFFSET_Y == 20

\* the body of the for_each of duplicate_selection, for one key
DuplicateOne(st, key) ==
    LET new_key == Len(st.strokes) + 1
        s1 == insert_stroke(st, st.strokes[key])
        s2 == set_selected(s1, new_key, TRUE)
    IN [s2 EXCEPT !.strokes[new_key] =
            StrokeTranslate(@, <<SELECTION_DUPLICATION_OFFSET_X,
                                 SELECTION_DUPLICATION_OFFSET_Y>>)]

RECURSIVE DuplicateEach(_, _)
DuplicateEach(st, order) ==
    IF order = << >> THEN st
    ELSE DuplicateEach(DuplicateOne(st, Head(order)), Tail(order))

\* duplicate_selection without the call of deselect_all_strokes
duplicate_selection_KeepOriginals(st, order) ==
    LET offset == <<SELECTION_DUPLICATION_OFFSET_X, SELECTION_DUPLICATION_OFFSET_Y>>
        s2 == DuplicateEach(st, order)
        s3 == translate_selection(s2, offset)
    IN update_selection_bounds(s3)

\* duplicate_selection without the group translate
duplicate_selection_SingleOffset(st, order) ==
    LET s1 == deselect_all_strokes(st)
        s2 == DuplicateEach(s1, order)
    IN update_selection_bounds(s2)

\* order: the keys of the selection in the order keys_selection returned them
duplicate_selection(st, order) ==
    LET offset == <<SELECTION_DUPLICATION_OFFSET_X, SELECTION_DUPLICATION_OFFSET_Y>>
        s1 == deselect_all_strokes(st)
        s2 == DuplicateEach(s1, order)
        s3 == translate_selection(s2, offset)
    IN update_selection_bounds(s3)

-----------------------------------------------------------------------------
(* update_selection_for_selector *)

\* IsHidden with the two conditions joined by "and"
IsHidden_BothFlags(st, key) ==
    /\ key \in DOMAIN st.render_components
    /\ key \in DOMAIN st.trash_components
    /\ (~st.render_components[key].render /\ st.trash_components[key])

\* "Skip if stroke is hidden"
IsHidden(st, key) ==
    /\ key \in DOMAIN st.render_components
    /\ key \in DOMAIN st.trash_components
    /\ (~st.render_components[key].render \/ st.trash_components[key])

\* "skip if stroke is not in viewport"
OutsideViewport(st, key, viewport) ==
    viewport # << >> /\ ~intersects(viewport[1], st.strokes[key].bounds)

\* HitboxContained satisfied by one contained element
HitboxContained_AnyElement(selector_bounds, stroke) ==
    \E i \in DOMAIN stroke.hitbox : contains(selector_bounds, stroke.hitbox[i])

\* the for loop over the hitbox: no element makes it return
HitboxContained(selector_bounds, stroke) ==
    \A i \in DOMAIN stroke.hitbox : contains(selector_bounds, stroke.hitbox[i])

\* selection_comp.selected = true, followed by the chrono stamp
SelectStamped(st, key) ==
    LET s1 == [st EXCEPT !.selection_components[key] = TRUE]
    IN IF key \in DOMAIN s1.chrono_components
       THEN [s1 EXCEPT !.chrono_counter = @ + 1,
                       !.chrono_components[key] = s1.chrono_counter + 1]
       ELSE s1

\* the MarkerStroke and BrushStroke arms of the match; st has the flag cleared
MatchFreehand(st, key, selector_bounds) ==
    LET stroke == st.strokes[key]
    IN IF contains(selector_bounds, stroke.bounds)
       THEN [st EXCEPT !.selection_components[key] = TRUE]
       ELSE IF intersects(selector_bounds, stroke.bounds)
       THEN (IF HitboxContained(selector_bounds, stroke)
             THEN SelectStamped(st, key)
             ELSE st)
       ELSE st

\* the ShapeStroke, VectorImage and BitmapImage arms of the match
MatchBounds(st, key, selector_bounds) ==
    IF contains(selector_bounds, st.strokes[key].bounds)
    THEN SelectStamped(st, key)
    ELSE st

\* the body of the for_each over the strokes, for one key
SelectorOne(st, key, selector_bounds, viewport) ==
    IF IsHidden(st, key) THEN st
    ELSE IF OutsideViewport(st, key, viewport) THEN st
    ELSE IF key \in DOMAIN st.selection_components
    THEN LET s1 == [st EXCEPT !.selection_components[key] = FALSE]
         IN IF st.strokes[key].kind \in Freehand
            THEN MatchFreehand(s1, key, selector_bounds)
            ELSE MatchBounds(s1, key, selector_bounds)
    ELSE st

RECURSIVE SelectorUpTo(_, _, _, _)
SelectorUpTo(st, k, selector_bounds, viewport) ==
    IF k = 0 THEN st
    ELSE SelectorOne(SelectorUpTo(st, k - 1, selector_bounds, viewport),
                     k, selector_bounds, viewport)

\* StrokesState::regenerate_rendering_for_selection_threaded: the request
regenerate_rendering_for_selection_threaded(st) ==
    [st EXCEPT !.render_components = [k \in DOMAIN @ |->
        IF k \in keys_selection(st)
        THEN [@[k] EXCEPT !.regenerate_flag = TRUE]
        ELSE @[k]]]

\* "Returns true if selection has changed": the comparison the source makes
SelectionChanged(st_prev, st_now) ==
    selection_len(st_now) # selection_len(st_prev)

\* the state after the call and the value returned
update_selection_for_selector(st, selector, viewport) ==
    IF selector = << >> THEN [st |-> st, ret |-> FALSE]
    ELSE LET s1 == SelectorUpTo(st, Len(st.strokes), selector[1], viewport)
         IN IF SelectionChanged(st, s1)
            THEN [st |-> regenerate_rendering_for_selection_threaded(
                             update_selection_bounds(s1)),
                  ret |-> TRUE]
            ELSE [st |-> s1, ret |-> FALSE]

-----------------------------------------------------------------------------
(* resize_selection *)

scalevector(sel_bounds, new_bounds) ==
    <<FDiv(extents(new_bounds)[1], extents(sel_bounds)[1]),
      FDiv(extents(new_bounds)[2], extents(sel_bounds)[2])>>

\* NewMin without the offset of the new bounds
NewMin_NoOffset(stroke, sel_bounds, new_bounds, i) ==
    FAdd(FMul(FSub(stroke.bounds.mins[i], sel_bounds.mins[i]),
              scalevector(sel_bounds, new_bounds)[i]),
         sel_bounds.mins[i])

\* one axis of the minimum corner computed by calc_new_stroke_bounds
NewMin(stroke, sel_bounds, new_bounds, i) ==
    LET offset == FSub(new_bounds.mins[i], sel_bounds.mins[i])
    IN FAdd(FAdd(FMul(FSub(stroke.bounds.mins[i], sel_bounds.mins[i]),
                      scalevector(sel_bounds, new_bounds)[i]),
                 sel_bounds.mins[i]),
            offset)

\* one axis of the maximum corner computed by calc_new_stroke_bounds
NewMax(stroke, sel_bounds, new_bounds, i) ==
    FAdd(NewMin(stroke, sel_bounds, new_bounds, i),
         FMul(extents(stroke.bounds)[i], scalevector(sel_bounds, new_bounds)[i]))

calc_new_stroke_bounds(stroke, sel_bounds, new_bounds) ==
    [mins |-> <<NewMin(stroke, sel_bounds, new_bounds, 1),
                NewMin(stroke, sel_bounds, new_bounds, 2)>>,
     maxs |-> <<NewMax(stroke, sel_bounds, new_bounds, 1),
                NewMax(stroke, sel_bounds, new_bounds, 2)>>]

resize_selection(st, new_bounds) ==
    IF st.selection_bounds = << >> THEN st
    ELSE LET sel_bounds == st.selection_bounds[1]
             resized == keys_selection(st) \cap Keys(st)
             new_stroke_bounds == [k \in resized |->
                 calc_new_stroke_bounds(st.strokes[k], sel_bounds, new_bounds)]
         IN [st EXCEPT
               !.strokes = [k \in DOMAIN @ |->
                   IF k \in resized THEN StrokeResize(@[k], new_stroke_bounds[k])
                   ELSE @[k]],
               !.render_components = [k \in DOMAIN @ |->
                   IF k \in resized
                   THEN [@[k] EXCEPT !.image_bounds = new_stroke_bounds[k],
                                     !.regenerate_flag = TRUE]
                   ELSE @[k]],
               !.selection_bounds = <<new_bounds>>]

\* every product the resize forms is one the model can hold
ResizeExact(st, new_bounds) ==
    st.selection_bounds # << >> =>
      LET sel_bounds == st.selection_bounds[1]
          sv == scalevector(sel_bounds, new_bounds)
      IN \A k \in keys_selection(st) \cap Keys(st) : \A i \in {1, 2} :
            LET stroke == st.strokes[k]
                nb == calc_new_stroke_bounds(stroke, sel_bounds, new_bounds)
                q == FDiv(extents(nb)[i], extents(stroke.bounds)[i])
            IN /\ ExactMul(FSub(stroke.bounds.mins[i], sel_bounds.mins[i]), sv[i])
               /\ ExactMul(extents(stroke.bounds)[i], sv[i])
               /\ \A h \in DOMAIN stroke.hitbox :
                     /\ ExactMul(FSub(stroke.hitbox[h].mins[i], stroke.bounds.mins[i]), q)
                     /\ ExactMul(FSub(stroke.hitbox[h].maxs[i], stroke.bounds.mins[i]), q)

-----------------------------------------------------------------------------
(* The parallel phases, stroke by stroke.  The closure returns what the worker
   hands to collect: out is empty for None. *)

\* the closure of translate_selection writing the shared selection_bounds too
translate_selection_worker_SharedBounds(st, key, offset) ==
    IF key \in DOMAIN st.selection_components /\ st.selection_components[key]
    THEN [st |-> [st EXCEPT !.strokes[key] = StrokeTranslate(@, offset),
                            !.selection_bounds = <<st.strokes[key].bounds>>],
          out |-> <<[key |-> key]>>]
    ELSE [st |-> st, out |-> << >>]

translate_selection_worker(st, key, offset) ==
    IF key \in DOMAIN st.selection_components /\ st.selection_components[key]
    THEN [st |-> [st EXCEPT !.strokes[key] = StrokeTranslate(@, offset)],
          out |-> <<[key |-> key]>>]
    ELSE [st |-> st, out |-> << >>]

\* the rest of translate_selection, after collect
translate_selection_finish(st, translated_strokes, offset) ==
    LET Up[i \in 0..Len(translated_strokes)] ==
            IF i = 0 THEN st
            ELSE LET key == translated_strokes[i].key
                 IN IF key \in DOMAIN Up[i - 1].render_components
                    THEN [Up[i - 1] EXCEPT !.render_components[key].image_bounds =
                                              aabb_translate(@, offset)]
                    ELSE Up[i - 1]
    IN [Up[Len(translated_strokes)] EXCEPT
          !.selection_bounds =
              IF @ # << >> THEN <<aabb_translate(@[1], offset)>> ELSE << >>]

resize_selection_worker(st, key, sel_bounds, new_bounds) ==
    IF key \in DOMAIN st.selection_components /\ st.selection_components[key]
    THEN LET new_stroke_bounds ==
                 calc_new_stroke_bounds(st.strokes[key], sel_bounds, new_bounds)
         IN [st |-> [st EXCEPT !.strokes[key] = StrokeResize(@, new_stroke_bounds)],
             out |-> <<[key |-> key, bounds |-> new_stroke_bounds]>>]
    ELSE [st |-> st, out |-> << >>]

\* the rest of resize_selection, after collect
resize_selection_finish(st, new_stroke_bounds, new_bounds) ==
    LET Up[i \in 0..Len(new_stroke_bounds)] ==
            IF i = 0 THEN st
            ELSE LET key == new_stroke_bounds[i].key
                 IN IF key \in DOMAIN Up[i - 1].render_components
                    THEN [Up[i - 1] EXCEPT
                             !.render_components[key].image_bounds =
                                 new_stroke_bounds[i].bounds,
                             !.render_components[key].regenerate_flag = TRUE]
                    ELSE Up[i - 1]
    IN [Up[Len(new_stroke_bounds)] EXCEPT !.selection_bounds = <<new_bounds>>]

-----------------------------------------------------------------------------
(* gen_svg_selection *)

\* StrokeBehaviour::gen_svg_data: the element block of one stroke
gen_svg_data(stroke, offset) ==
    [kind |-> stroke.kind, bounds |-> aabb_translate(stroke.bounds, offset)]

\* compose::wrap_svg
wrap_svg(data, bounds, viewbox) ==
    [data |-> data, bounds |-> bounds, viewbox |-> viewbox]

\* gen_svg_selection serialising every stroke of the arena
gen_svg_selection_AllStrokes(st, order) ==
    IF st.selection_bounds = << >> THEN << >>
    ELSE LET sb == st.selection_bounds[1]
             shift == <<FNeg(sb.mins[1]), FNeg(sb.mins[2])>>
             data == [i \in DOMAIN st.strokes |-> gen_svg_data(st.strokes[i], shift)]
             wrapper_bounds == AABB(0, 0, FSub(sb.maxs[1], sb.mins[1]),
                                          FSub(sb.maxs[2], sb.mins[2]))
         IN <<wrap_svg(data, wrapper_bounds, wrapper_bounds)>>

\* order: the keys of the selection in the order keys_selection returned them
gen_svg_selection(st, order) ==
    IF st.selection_bounds = << >> THEN << >>
    ELSE LET sb == st.selection_bounds[1]
             shift == <<FNeg(sb.mins[1]), FNeg(sb.mins[2])>>
             present == SelectSeq(order, LAMBDA k : k \in Keys(st))
             data == [i \in DOMAIN present |-> gen_svg_data(st.strokes[present[i]], shift)]
             wrapper_bounds == AABB(0, 0, FSub(sb.maxs[1], sb.mins[1]),
                                          FSub(sb.maxs[2], sb.mins[2]))
         IN <<wrap_svg(data, wrapper_bounds, wrapper_bounds)>>

-----------------------------------------------------------------------------
(* export_selection_as_svg *)

\* the call on the gio file that fails with an error, "none" when all succeed
IoFaults == {"none", "replace", "write", "close"}

\* the calls made on the file up to the first that fails
FileCalls(io) ==
    IF io = "replace" THEN <<"replace">>
    ELSE IF io = "write" THEN <<"replace", "write">>
    ELSE <<"replace", "write", "close">>

\* export_selection_as_svg replacing the file before it looks at the data
export_selection_as_svg_AlwaysOpens(st, order, io) ==
    LET data == gen_svg_selection(st, order)
    IN [calls |-> FileCalls(io),
        written |-> IF io \in {"none", "close"} THEN data ELSE << >>,
        io |-> io,
        ret |-> IF io = "none" THEN "Ok" ELSE "Err"]

\* calls: the calls made on the file; written: the bytes the stream took;
\* ret: the Result returned
export_selection_as_svg(st, order, io) ==
    LET data == gen_svg_selection(st, order)
    IN IF data # << >>
       THEN [calls |-> FileCalls(io),
             written |-> IF io \in {"none", "close"} THEN data ELSE << >>,
             io |-> io,
             ret |-> IF io = "none" THEN "Ok" ELSE "Err"]
       ELSE [calls |-> << >>, written |-> << >>, io |-> io, ret |-> "Ok"]

-----------------------------------------------------------------------------
(* The canvases a run starts from and the arguments of the calls *)

Ink == <<AABB(5, 5, 10, 10), AABB(10, 10, 15, 15)>>

MARKER == [kind |-> "MarkerStroke", bounds |-> AABB(0, 0, 20, 20), hitbox |-> Ink]
BRUSH  == [kind |-> "BrushStroke",  bounds |-> AABB(0, 0, 20, 20), hitbox |-> Ink]
LINE   == [kind |-> "ShapeStroke",  bounds |-> AABB(0, 10, 20, 10), hitbox |-> << >>]
SHAPE  == [kind |-> "ShapeStroke",  bounds |-> AABB(30, 0, 50, 20), hitbox |-> << >>]
VECTOR == [kind |-> "VectorImage",  bounds |-> AABB(30, 0, 50, 20), hitbox |-> << >>]
BITMAP == [kind |-> "BitmapImage",  bounds |-> AABB(30, 0, 50, 20), hitbox |-> << >>]

Entry(stroke, trashed, render) ==
    [stroke |-> stroke, trashed |-> trashed, render |-> render]

\* each canvas: the strokes inserted so far, some trashed or hidden since
Canvases ==
    { <<Entry(MARKER, FALSE, TRUE), Entry(SHAPE, FALSE, TRUE)>>,
      <<Entry(BRUSH, FALSE, TRUE), Entry(VECTOR, FALSE, TRUE)>>,
      <<Entry(LINE, FALSE, TRUE), Entry(BITMAP, FALSE, TRUE)>>,
      <<Entry(MARKER, FALSE, TRUE), Entry(SHAPE, TRUE, TRUE)>>,
      <<Entry(BRUSH, FALSE, TRUE), Entry(BITMAP, FALSE, FALSE)>> }

\* the selector's bounds and the viewport of a call of update_selection_for_selector
SelectorInk   == AABB(2, 2, 40, 18)
SelectorRight == AABB(25, -5, 55, 25)
SelectorAll   == AABB(-5, -5, 55, 25)
SelectorPart  == AABB(0, 0, 12, 12)
ViewRight     == AABB(25, -5, 60, 30)

SelectorCalls ==
    { <<<< >>, << >>>>,
      <<<<SelectorInk>>, << >>>>,
      <<<<SelectorRight>>, << >>>>,
      <<<<SelectorAll>>, << >>>>,
      <<<<SelectorPart>>, << >>>>,
      <<<<SelectorAll>>, <<ViewRight>>>>,
      <<<<SelectorInk>>, <<ViewRight>>>> }

ResizeTargets == {AABB(0, 0, 40, 40), AABB(10, 10, 60, 30)}

Offsets == {<<10, 5>>, <<-10, -5>>}

\* the orders in which keys_selection may return the keys of S
Orders(S) ==
    {f \in [1..Cardinality(S) -> S] : \A i, j \in DOMAIN f : i # j => f[i] # f[j]}

NoArgs ==
    [key |-> 0, sel |-> FALSE, selector |-> << >>, viewport |-> << >>,
     new_bounds |-> << >>, offset |-> <<0, 0>>, order |-> << >>, ret |-> FALSE]

-----------------------------------------------------------------------------
(* The state machine: one action per public operation *)

Init ==
    \E canvas \in Canvases :
        /\ strokes = [k \in DOMAIN canvas |-> canvas[k].stroke]
        /\ selection_components = [k \in DOMAIN canvas |-> FALSE]
        /\ chrono_components = [k \in DOMAIN canvas |-> k]
        /\ render_components = [k \in DOMAIN canvas |->
               [render |-> canvas[k].render,
                image_bounds |-> canvas[k].stroke.bounds,
                regenerate_flag |-> FALSE]]
        /\ trash_components = [k \in DOMAIN canvas |-> canvas[k].trashed]
        /\ chrono_counter = Len(canvas)
        /\ selection_bounds = << >>
        /\ exported = << >>
        /\ exported_file = << >>
        /\ par = << >>
        /\ nops = 0
        /\ last = [op |-> "new", args |-> NoArgs,
                   pre |-> [strokes |-> [k \in DOMAIN canvas |-> canvas[k].stroke],
                            selection_components |-> [k \in DOMAIN canvas |-> FALSE],
                            chrono_components |-> [k \in DOMAIN canvas |-> k],
                            render_components |-> [k \in DOMAIN canvas |->
                                [render |-> canvas[k].render,
                                 image_bounds |-> canvas[k].stroke.bounds,
                                 regenerate_flag |-> FALSE]],
                            trash_components |-> [k \in DOMAIN canvas |-> canvas[k].trashed],
                            chrono_counter |-> Len(canvas),
                            selection_bounds |-> << >>]]

\* the engine's state becomes st after the call op(args)
Becomes(st, op, args) ==
    /\ par = << >>
    /\ strokes' = st.strokes
    /\ selection_components' = st.selection_components
    /\ chrono_components' = st.chrono_components
    /\ render_components' = st.render_components
    /\ trash_components' = st.trash_components
    /\ chrono_counter' = st.chrono_counter
    /\ selection_bounds' = st.selection_bounds
    /\ exported' = << >>
    /\ exported_file' = << >>
    /\ par' = << >>
    /\ last' = [op |-> op, args |-> args, pre |-> Cur]
    /\ nops' = nops + 1

SetSelected ==
    /\ nops < MaxOps
    /\ \E key \in 0..Len(strokes), sel \in BOOLEAN :
          Becomes(set_selected(Cur, key, sel), "set_selected",
                  [NoArgs EXCEPT !.key = key, !.sel = sel])

DeselectAllStrokes ==
    /\ nops < MaxOps
    /\ Becomes(deselect_all_strokes(Cur), "deselect_all_strokes", NoArgs)

DuplicateSelection ==
    /\ nops < MaxOps
    /\ Len(strokes) + selection_len(Cur) <= MaxKeys
    /\ \E order \in Orders(keys_selection(Cur)) :
          Becomes(duplicate_selection(Cur, order), "duplicate_selection",
                  [NoArgs EXCEPT !.order = order])

UpdateSelectionForSelector ==
    /\ nops < MaxOps
    /\ \E call \in SelectorCalls :
          LET r == update_selection_for_selector(Cur, call[1], call[2])
          IN Becomes(r.st, "update_selection_for_selector",
                     [NoArgs EXCEPT !.selector = call[1], !.viewport = call[2],
                                    !.ret = r.ret])

ResizeSelection ==
    /\ nops < MaxOps
    /\ \E new_bounds \in ResizeTargets :
          /\ ResizeExact(Cur, new_bounds)
          /\ Becomes(resize_selection(Cur, new_bounds), "resize_selection",
                     [NoArgs EXCEPT !.new_bounds = <<new_bounds>>])

TranslateSelection ==
    /\ nops < MaxOps
    /\ \E offset \in Offsets :
          Becomes(translate_selection(Cur, offset), "translate_selection",
                  [NoArgs EXCEPT !.offset = offset])

\* a read: the state and the record of the last mutating call stay
GenSvgSelection ==
    /\ nops < MaxOps
    /\ par = << >>
    /\ exported = << >>
    /\ \E order \in Orders(keys_selection(Cur)) :
          exported' = <<gen_svg_selection(Cur, order)>>
    /\ nops' = nops + 1
    /\ UNCHANGED <<state, exported_file, par, last>>

\* a read as well; io names the call on the file that fails, if any
ExportSelectionAsSvg ==
    /\ nops < MaxOps
    /\ par = << >>
    /\ exported_file = << >>
    /\ \E order \in Orders(keys_selection(Cur)), io \in IoFaults :
          exported_file' = <<export_selection_as_svg(Cur, order, io)>>
    /\ nops' = nops + 1
    /\ UNCHANGED <<state, exported, par, last>>

Next ==
    \/ SetSelected
    \/ DeselectAllStrokes
    \/ DuplicateSelection
    \/ UpdateSelectionForSelector
    \/ ResizeSelection
    \/ TranslateSelection
    \/ GenSvgSelection
    \/ ExportSelectionAsSvg

Spec == Init /\ [][Next]_vars

-----------------------------------------------------------------------------
(* The parallel phases of translate_selection and resize_selection, one step
   per stroke handed to a worker of the pool *)

\* translate_selection starts: every stroke of the arena awaits a worker
BeginTranslateSelection ==
    /\ nops < MaxOps
    /\ par = << >>
    /\ \E offset \in Offsets :
          par' = <<[op |-> "translate_selection",
                    args |-> [NoArgs EXCEPT !.offset = offset],
                    pending |-> Keys(Cur), collected |-> << >>, pre |-> Cur]>>
    /\ UNCHANGED <<state, exported, exported_file, last, nops>>

\* resize_selection starts its parallel phase, or returns at once when
\* selection_bounds is none
BeginResizeSelection ==
    /\ nops < MaxOps
    /\ par = << >>
    /\ \E new_bounds \in ResizeTargets :
          /\ ResizeExact(Cur, new_bounds)
          /\ IF selection_bounds = << >>
             THEN Becomes(Cur, "resize_selection",
                          [NoArgs EXCEPT !.new_bounds = <<new_bounds>>])
             ELSE /\ par' = <<[op |-> "resize_selection",
                               args |-> [NoArgs EXCEPT !.new_bounds = <<new_bounds>>],
                               pending |-> Keys(Cur), collected |-> << >>,
                               pre |-> Cur]>>
                  /\ UNCHANGED <<state, exported, exported_file, last, nops>>

\* a worker runs the closure on one stroke not yet visited
TransformWorker ==
    /\ par # << >>
    /\ \E key \in par[1].pending :
          LET p == par[1]
              r == IF p.op = "translate_selection"
                   THEN translate_selection_worker(Cur, key, p.args.offset)
                   ELSE resize_selection_worker(Cur, key, p.pre.selection_bounds[1],
                                                p.args.new_bounds[1])
          IN /\ strokes' = r.st.strokes
             /\ selection_components' = r.st.selection_components
             /\ chrono_components' = r.st.chrono_components
             /\ render_components' = r.st.render_components
             /\ trash_components' = r.st.trash_components
             /\ chrono_counter' = r.st.chrono_counter
             /\ selection_bounds' = r.st.selection_bounds
             /\ par' = <<[p EXCEPT !.pending = @ \ {key},
                                   !.collected = @ \o r.out]>>
    /\ UNCHANGED <<exported, exported_file, last, nops>>

\* the workers are done: the sequential rest of the call runs over what they
\* collected, in the order they finished, and the call returns
FinishTransform ==
    /\ par # << >>
    /\ par[1].pending = {}
    /\ LET p == par[1]
           st == IF p.op = "translate_selection"
                 THEN translate_selection_finish(Cur, p.collected, p.args.offset)
                 ELSE resize_selection_finish(Cur, p.collected, p.args.new_bounds[1])
       IN /\ strokes' = st.strokes
          /\ selection_components' = st.selection_components
          /\ chrono_components' = st.chrono_components
          /\ render_components' = st.render_components
          /\ trash_components' = st.trash_components
          /\ chrono_counter' = st.chrono_counter
          /\ selection_bounds' = st.selection_bounds
          /\ last' = [op |-> p.op,
                      args |-> [p.args EXCEPT !.order =
                                   [i \in DOMAIN p.collected |-> p.collected[i].key]],
                      pre |-> p.pre]
    /\ exported' = << >>
    /\ exported_file' = << >>
    /\ par' = << >>
    /\ nops' = nops + 1

NextPar ==
    \/ UpdateSelectionForSelector
    \/ DuplicateSelection
    \/ BeginTranslateSelection
    \/ BeginResizeSelection
    \/ TransformWorker
    \/ FinishTransform

SpecPar == Init /\ [][NextPar]_vars

-----------------------------------------------------------------------------
(* Properties *)

Pre == last.pre
Args == last.args
Called(op) == last.op = op

\* C1: at the return of every call, selection_bounds is the union of the
\* bounds of exactly the selected strokes, and none when no stroke is selected.
C1_SelectionBoundsIsUnion ==
    selection_bounds = gen_bounds(Cur, keys_selection(Cur))

\* the stroke is passed over by the pass: trashed, not rendered, or outside
\* the viewport supplied
Skipped(st, key, viewport) ==
    \/ st.trash_components[key]
    \/ ~st.render_components[key].render
    \/ (viewport # << >> /\ ~intersects(viewport[1], st.strokes[key].bounds))

\* the selection rule for one stroke under the selector bounds S
SelectorRule(S, stroke) ==
    \/ contains(S, stroke.bounds)
    \/ /\ stroke.kind \in {"MarkerStroke", "BrushStroke"}
       /\ intersects(S, stroke.bounds)
       /\ \A i \in DOMAIN stroke.hitbox : contains(S, stroke.hitbox[i])

\* C2: after update_selection_for_selector with selector bounds S, a stroke
\* that was not skipped is selected exactly when S contains its bounds, or it
\* is a marker or brush stroke whose bounds S intersects and whose every
\* hitbox element S contains; a shape or image S partly overlaps is not selected.
C2_SelectorRule ==
    (Called("update_selection_for_selector") /\ Args.selector # << >>) =>
        \A key \in Keys(Pre) :
            (~Skipped(Pre, key, Args.viewport) /\ can_select(Pre, key)) =>
                /\ selection_components[key]
                       <=> SelectorRule(Args.selector[1], Pre.strokes[key])
                /\ (/\ Pre.strokes[key].kind \notin Freehand
                    /\ ~contains(Args.selector[1], Pre.strokes[key].bounds))
                       => ~selection_components[key]

\* C2 witness: one pass selected a freehand stroke through its hitbox alone
\* and left a partly overlapped shape or image unselected.
C2_Witness ==
    /\ Called("update_selection_for_selector") /\ Args.selector # << >>
    /\ \E key \in Keys(Cur) :
          /\ strokes[key].kind \in Freehand
          /\ ~Skipped(Pre, key, Args.viewport)
          /\ ~contains(Args.selector[1], strokes[key].bounds)
          /\ selection_components[key]
    /\ \E key \in Keys(Cur) :
          /\ strokes[key].kind \notin Freehand
          /\ ~Skipped(Pre, key, Args.viewport)
          /\ intersects(Args.selector[1], strokes[key].bounds)
          /\ ~selection_components[key]

\* C3: update_selection_for_selector returns true exactly when the set of
\* selected keys after the call differs from the set before it.
C3_ReturnsWhetherSetChanged ==
    Called("update_selection_for_selector") =>
        (Args.ret <=> keys_selection(Cur) # keys_selection(Pre))

\* C4: update_selection_for_selector leaves the selected flag and the chrono
\* stamp of every skipped stroke (trashed, not rendered, or outside the
\* viewport supplied) as they were.
C4_SkippedUntouched ==
    Called("update_selection_for_selector") =>
        \A key \in Keys(Pre) :
            Skipped(Pre, key, Args.viewport) =>
                /\ selection_components[key] = Pre.selection_components[key]
                /\ chrono_components[key] = Pre.chrono_components[key]

\* C4 witness: a skipped stroke that was selected stays selected through a
\* pass whose selector does not cover it.
C4_Witness ==
    /\ Called("update_selection_for_selector") /\ Args.selector # << >>
    /\ \E key \in Keys(Pre) :
          /\ Skipped(Pre, key, Args.viewport)
          /\ Pre.selection_components[key]
          /\ ~SelectorRule(Args.selector[1], Pre.strokes[key])
          /\ selection_components[key]
          /\ chrono_components[key] = Pre.chrono_components[key]

IsFinBox(b) ==
    IsFin(b.mins[1]) /\ IsFin(b.mins[2]) /\ IsFin(b.maxs[1]) /\ IsFin(b.maxs[2])

\* the case of C5: resize_selection called while selection_bounds is the
\* union B of the selected strokes' bounds, with a non-zero extent on both axes
C5_Case ==
    /\ Called("resize_selection")
    /\ Pre.selection_bounds # << >>
    /\ Pre.selection_bounds = gen_bounds(Pre, keys_selection(Pre))
    /\ IsFinBox(Pre.selection_bounds[1])
    /\ extents(Pre.selection_bounds[1])[1] # 0
    /\ extents(Pre.selection_bounds[1])[2] # 0

\* C5: resize_selection(N) from group bounds B gives every selected stroke,
\* per axis, min = N.min + (stroke.min - B.min) * (N.extent / B.extent) and
\* extent = stroke.extent * (N.extent / B.extent), so its offset and size
\* relative to N are what they were relative to B; selection_bounds becomes N.
C5_ResizeLaw ==
    C5_Case =>
        LET B == Pre.selection_bounds[1]
            N == Args.new_bounds[1]
        IN /\ selection_bounds = <<N>>
           /\ \A k \in keys_selection(Pre) : \A i \in {1, 2} :
                 LET old == Pre.strokes[k].bounds
                     new == strokes[k].bounds
                     scale == FDiv(extents(N)[i], extents(B)[i])
                 IN /\ new.mins[i] =
                           FAdd(N.mins[i], FMul(FSub(old.mins[i], B.mins[i]), scale))
                    /\ extents(new)[i] = FMul(extents(old)[i], scale)
                    /\ IsFinBox(old) =>
                          /\ (new.mins[i] - N.mins[i]) * extents(B)[i]
                                = (old.mins[i] - B.mins[i]) * extents(N)[i]
                          /\ extents(new)[i] * extents(B)[i]
                                = extents(old)[i] * extents(N)[i]

\* C5 witness: a group of two strokes was resized with a scale other than 1,
\* one of them off the group's minimum corner.
C5_Witness ==
    /\ C5_Case
    /\ selection_len(Pre) >= 2
    /\ extents(Args.new_bounds[1]) # extents(Pre.selection_bounds[1])
    /\ \E k \in keys_selection(Pre) :
          /\ IsFinBox(Pre.strokes[k].bounds)
          /\ Pre.strokes[k].bounds.mins # Pre.selection_bounds[1].mins
          /\ strokes[k].bounds # Pre.strokes[k].bounds

Bijections(S, T) ==
    {f \in [S -> T] : /\ \A a, b \in S : a # b => f[a] # f[b]
                      /\ \A t \in T : \E a \in S : f[a] = t}

\* C7: after duplicate_selection with n strokes selected, exactly n strokes
\* are selected, all newly inserted clones, one per stroke selected before;
\* every original is deselected with its geometry unchanged.
C7_ClonesReplaceSelection ==
    Called("duplicate_selection") =>
        LET old == keys_selection(Pre)
            new == keys_selection(Cur)
        IN /\ Cardinality(new) = Cardinality(old)
           /\ new = Keys(Cur) \ Keys(Pre)
           /\ \E f \in Bijections(old, new) : \A k \in old :
                 /\ strokes[f[k]].kind = Pre.strokes[k].kind
                 /\ extents(strokes[f[k]].bounds) = extents(Pre.strokes[k].bounds)
                 /\ Len(strokes[f[k]].hitbox) = Len(Pre.strokes[k].hitbox)
           /\ \A k \in old :
                 /\ ~selection_components[k]
                 /\ strokes[k] = Pre.strokes[k]

\* C7 witness: duplicate_selection was called with two strokes selected.
C7_Witness ==
    /\ Called("duplicate_selection")
    /\ selection_len(Pre) = 2
    /\ selection_len(Cur) = 2

\* C8: after duplicate_selection every clone's bounds are its original's
\* bounds shifted by twice the duplication offset, 2 * 20 = 40, on each axis.
C8_CloneShiftedTwice ==
    Called("duplicate_selection") =>
        \E f \in Bijections(keys_selection(Pre), keys_selection(Cur)) :
            \A k \in keys_selection(Pre) :
                strokes[f[k]].bounds
                    = aabb_translate(Pre.strokes[k].bounds, <<2 * 20, 2 * 20>>)

\* C8 witness: a stroke at (0,0)-(20,20) was duplicated to (40,40)-(60,60).
C8_Witness ==
    /\ Called("duplicate_selection")
    /\ \E k \in keys_selection(Pre) : \E c \in keys_selection(Cur) :
          /\ Pre.strokes[k].bounds = AABB(0, 0, 20, 20)
          /\ strokes[c].bounds = AABB(40, 40, 60, 60)

\* the case of C9: one stroke selected, duplicate_selection, gen_svg_selection
C9_Case ==
    /\ Called("duplicate_selection")
    /\ selection_len(Pre) = 1
    /\ exported # << >>

C10_Case ==
    /\ Called("set_selected")
    /\ Args.key \in DOMAIN Pre.selection_components
    /\ Args.key \in DOMAIN Pre.chrono_components

\* the call advanced chrono_counter by one and stamped the stroke with it
C10_Stamped ==
    /\ chrono_counter = Pre.chrono_counter + 1
    /\ chrono_components[Args.key] = chrono_counter

\* the call left chrono_counter and every chrono stamp as they were
C10_Unstamped ==
    /\ chrono_counter = Pre.chrono_counter
    /\ chrono_components = Pre.chrono_components

\* C10 as stated: set_selected advances chrono_counter and stamps the stroke
\* exactly when the call takes the flag from false to true; any other call
\* leaves chrono_counter and every stamp unchanged.
C10_StampIffTransition ==
    C10_Case =>
        LET transition == Args.sel /\ ~Pre.selection_components[Args.key]
        IN /\ C10_Stamped <=> transition
           /\ ~transition => C10_Unstamped

\* C10 amended: set_selected(key, selected) advances chrono_counter by one
\* and stamps the stroke with the new value exactly when selected is true,
\* whether or not the stroke was selected before; a call with selected false
\* leaves chrono_counter and every stamp unchanged, and no call changes the
\* stamp of another stroke.
C10_StampIffSelectedArgument ==
    C10_Case =>
        /\ C10_Stamped <=> Args.sel
        /\ ~Args.sel => C10_Unstamped
        /\ \A k \in DOMAIN Pre.chrono_components :
              k # Args.key => chrono_components[k] = Pre.chrono_components[k]

\* C10 witness: set_selected(key, true) on a stroke that was selected already
\* advanced the counter and stamped the stroke again.
C10_Witness ==
    /\ C10_Case
    /\ Args.sel
    /\ Pre.selection_components[Args.key]
    /\ C10_Stamped

\* C11: deselect_all_strokes advances chrono_counter by the number of strokes
\* that were selected and stamps exactly those; the others keep their stamp.
C11_DeselectStampsSelectedOnly ==
    Called("deselect_all_strokes") =>
        /\ chrono_counter = Pre.chrono_counter + selection_len(Pre)
        /\ \A k \in Keys(Pre) :
              IF Pre.selection_components[k]
              THEN chrono_components[k] > Pre.chrono_counter
              ELSE chrono_components[k] = Pre.chrono_components[k]

\* C12: in update_selection_for_selector every stroke whose flag goes from
\* false to true has the counter advanced for it and carries the new value.
C12_NewlySelectedStamped ==
    (Called("update_selection_for_selector") /\ Args.selector # << >>) =>
        \A k \in Keys(Pre) :
            (~Pre.selection_components[k] /\ selection_components[k]) =>
                /\ chrono_components[k] > Pre.chrono_counter
                /\ chrono_components[k] <= chrono_counter

\* the case of C13: set_selected(key, true) was called on a key with a
\* selection component
C13_Case ==
    /\ Called("set_selected")
    /\ Args.sel
    /\ can_select(Pre, Args.key)

\* C13 as stated: set_selected(key, true) followed by set_selected(key, false)
\* leaves the set of selected keys what it was before the two calls.
C13_SelectDeselectRestores ==
    C13_Case =>
        keys_selection(set_selected(Cur, Args.key, FALSE)) = keys_selection(Pre)

\* C13 amended: set_selected(key, true) followed by set_selected(key, false)
\* leaves the set of selected keys what it was before the two calls, less
\* key: the set is restored exactly when key was not selected before; the
\* chrono counter and the stroke's stamp have advanced.
C13_SelectDeselectRemovesKey ==
    C13_Case =>
        LET after == set_selected(Cur, Args.key, FALSE)
        IN /\ keys_selection(after) = keys_selection(Pre) \ {Args.key}
           /\ Args.key \notin keys_selection(Pre)
                 => keys_selection(after) = keys_selection(Pre)
           /\ Args.key \in keys_selection(Pre)
                 => keys_selection(after) # keys_selection(Pre)
           /\ after.chrono_counter > Pre.chrono_counter
           /\ after.chrono_components[Args.key] > Pre.chrono_components[Args.key]

\* C13 witness: set_selected(key, true) selected a stroke that was not
\* selected, next to another selected stroke.
C13_Witness ==
    /\ C13_Case
    /\ Args.key \notin keys_selection(Pre)
    /\ Args.key \in keys_selection(Cur)
    /\ keys_selection(Pre) # {}

\* C14: for a key without a selection component can_select is false,
\* selected is none and set_selected changes nothing.
C14_MissingComponentNoOp ==
    /\ \A key \in 0..MaxKeys :
          ~can_select(Cur, key) => selected(Cur, key) = << >>
    /\ (Called("set_selected") /\ ~can_select(Pre, Args.key)) =>
          /\ Cur = Pre
          /\ ~can_select(Cur, Args.key)
          /\ selected(Cur, Args.key) = << >>

\* C14 witness: set_selected(key, true) was called with a key that has no
\* selection component while a stroke was selected.
C14_Witness ==
    /\ Called("set_selected")
    /\ ~can_select(Pre, Args.key)
    /\ Args.sel
    /\ keys_selection(Cur) # {}

\* the case of C16: resize_selection was called while selection_bounds had
\* zero extent on an axis
C16_Degenerate(i) ==
    /\ Called("resize_selection")
    /\ Pre.selection_bounds # << >>
    /\ extents(Pre.selection_bounds[1])[i] = 0

\* C16: with zero extent of selection_bounds on an axis resize_selection does
\* not divide by it: it rejects the resize, changing nothing, or it resizes
\* with scale 1 on that axis, so that every selected stroke keeps its finite
\* extent there.
C16_DegenerateResizeGuarded ==
    \A i \in {1, 2} :
        C16_Degenerate(i) =>
            \/ Cur = Pre
            \/ \A k \in keys_selection(Pre) \cap Keys(Pre) :
                  /\ IsFin(strokes[k].bounds.mins[i])
                  /\ IsFin(strokes[k].bounds.maxs[i])
                  /\ extents(strokes[k].bounds)[i] = extents(Pre.strokes[k].bounds)[i]

\* the strokes the last call stamped: new ones and those whose stamp changed
Stamped ==
    {k \in Keys(Cur) : k \notin Keys(Pre) \/ chrono_components[k] # Pre.chrono_components[k]}

\* C18: chrono_counter never decreases; every stamp a call assigns is a value
\* the counter took during the call, one increment at least per stamp; the
\* stamps are pairwise distinct and increase in the order of assignment, the
\* scan order of the keys.
C18_ChronoMonotoneDistinct ==
    /\ chrono_counter >= Pre.chrono_counter
    /\ \A k \in Stamped :
          /\ chrono_components[k] > Pre.chrono_counter
          /\ chrono_components[k] <= chrono_counter
    /\ \A j, k \in Stamped : j < k => chrono_components[j] < chrono_components[k]
    /\ chrono_counter - Pre.chrono_counter >= Cardinality(Stamped)
    /\ ~Called("duplicate_selection") =>
          chrono_counter - Pre.chrono_counter = Cardinality(Stamped)
    /\ \A j, k \in Keys(Cur) : j # k => chrono_components[j] # chrono_components[k]
    /\ \A k \in Keys(Cur) : chrono_components[k] <= chrono_counter

\* C18 witness: one call stamped two strokes
C18_Witness ==
    /\ \/ Called("update_selection_for_selector")
       \/ Called("deselect_all_strokes")
    /\ Cardinality(Stamped) >= 2
    /\ nops >= 2

\* C19: selection_bounds is none exactly when no stroke is selected, and
\* gen_svg_selection returns a document exactly when a stroke is selected.
C19_BoundsNoneIffEmpty ==
    /\ selection_bounds = << >> <=> keys_selection(Cur) = {}
    /\ exported # << >> => (exported[1] # << >> <=> keys_selection(Cur) # {})

\* C19 witness: gen_svg_selection returned a document after a selector pass
\* that swapped the members of the selection without changing their number
C19_Witness ==
    /\ exported # << >>
    /\ exported[1] # << >>
    /\ Called("update_selection_for_selector")
    /\ ~Args.ret
    /\ keys_selection(Cur) # keys_selection(Pre)

\* C20: resize_selection and translate_selection change no selected flag, no
\* chrono stamp and not chrono_counter, and leave every unselected stroke and
\* its render component alone; resize_selection changes nothing when
\* selection_bounds is none, translate_selection leaves it none.
C20_TransformFrame ==
    /\ (Called("resize_selection") \/ Called("translate_selection")) =>
          /\ selection_components = Pre.selection_components
          /\ chrono_components = Pre.chrono_components
          /\ chrono_counter = Pre.chrono_counter
          /\ trash_components = Pre.trash_components
          /\ Keys(Cur) = Keys(Pre)
          /\ \A k \in Keys(Pre) \ keys_selection(Pre) :
                /\ strokes[k] = Pre.strokes[k]
                /\ render_components[k] = Pre.render_components[k]
    /\ (Called("resize_selection") /\ Pre.selection_bounds = << >>) => Cur = Pre
    /\ (Called("translate_selection") /\ Pre.selection_bounds = << >>) =>
          selection_bounds = << >>

\* C20 witness: a resize or a translation moved the selection next to an
\* unselected stroke
C20_Witness ==
    /\ Called("resize_selection") \/ Called("translate_selection")
    /\ keys_selection(Pre) # {}
    /\ Keys(Pre) \ keys_selection(Pre) # {}
    /\ strokes # Pre.strokes

\* C15: with no stroke selected gen_svg_selection returns none and
\* export_selection_as_svg returns success without a call on the file,
\* whatever the file would have answered.
C15_EmptySelectionExport ==
    keys_selection(Cur) = {} =>
        /\ exported # << >> => exported[1] = << >>
        /\ exported_file # << >> =>
              /\ exported_file[1].ret = "Ok"
              /\ exported_file[1].calls = << >>
              /\ exported_file[1].written = << >>

\* C15 witness: export_selection_as_svg was called after the selection was
\* emptied, with a file that cannot be replaced
C15_Witness ==
    /\ keys_selection(Cur) = {}
    /\ keys_selection(Pre) # {}
    /\ exported_file # << >>
    /\ exported_file[1].io = "replace"

\* the state the whole call makes of st, computed without workers
Transformed(st, op, args) ==
    IF op = "translate_selection"
    THEN translate_selection(st, args.offset)
    ELSE resize_selection(st, args.new_bounds[1])

\* C17: in the parallel phases of resize_selection and translate_selection a
\* worker writes the geometry of its own stroke and nothing else: while the
\* phase runs, the selected flags, the chrono stamps, chrono_counter,
\* selection_bounds and the render components are those of the start of the
\* call, a stroke no worker has visited is as it was, and a visited one is
\* what the call makes of it; whatever the order of the workers, the call
\* ends in the one state the call without workers gives.
C17_WorkersWriteOwnStroke ==
    /\ par # << >> =>
          LET p == par[1]
              end == Transformed(p.pre, p.op, p.args)
          IN /\ selection_components = p.pre.selection_components
             /\ chrono_components = p.pre.chrono_components
             /\ chrono_counter = p.pre.chrono_counter
             /\ selection_bounds = p.pre.selection_bounds
             /\ render_components = p.pre.render_components
             /\ trash_components = p.pre.trash_components
             /\ Keys(Cur) = Keys(p.pre)
             /\ \A k \in Keys(Cur) :
                   strokes[k] = IF k \in p.pending THEN p.pre.strokes[k]
                                ELSE end.strokes[k]
    /\ (par = << >> /\ (Called("translate_selection") \/ Called("resize_selection"))) =>
          /\ Cur = Transformed(Pre, last.op, Args)
          /\ keys_selection(Cur) = keys_selection(Pre)

\* C17 witness: a call returned whose workers finished two selected strokes
\* in the reverse of the scan order
C17_Witness ==
    /\ par = << >>
    /\ Called("translate_selection") \/ Called("resize_selection")
    /\ Len(Args.order) >= 2
    /\ Args.order[1] > Args.order[2]
    /\ strokes # Pre.strokes

====
